---- MODULE Spec2Model ----
(***************************************************************************)
(* Dahua VCS-SH30 speaker integration: the REST client (dahua_client.py),  *)
(* the media player entity with its catch_dahua_errors wrapper             *)
(* (media_player.py) and the config entry setup (__init__.py).             *)
(***************************************************************************)
EXTENDS Integers, Sequences, FiniteSets, TLC

(* ------------------------------ bounds -------------------------------- *)
\* Device volumes are 0..MaxVol (the real device uses 0..10).
MaxVol == 1

\* The opaque session tokens the device may issue.
Tokens == {"token1", "token2"}
\* Python's None, for the values that are strings otherwise.
None == "None"
Volumes == 0..MaxVol
\* File names known to the media sources.
Names == {"a.mp3", "b.mp3"}

(* --------------------------- python helpers --------------------------- *)
\* dict.get(key) is not None
Has(d, k) == k \in DOMAIN d

\* needle in haystack, for texts given as sequences of words
Contains(needle, hay) ==
    \E k \in 0..Len(hay) :
        /\ k + Len(needle) <= Len(hay)
        /\ SubSeq(hay, k + 1, k + Len(needle)) = needle

\* "username or password"
CredentialsText == <<"username", "or", "password">>

(* ------------------------- what the device answers -------------------- *)
MessageTexts ==
    { <<"Invalid", "username", "or", "password">>,
      <<"username", "or">>,
      <<"bad", "request">> }

\* Envelopes {code?, message?, ...payload}: a success envelope has no code
\* or code 200 and carries the payload; an error envelope has a code other
\* than 200 and an optional message.
SuccessEnvelopes(payloads) ==
    { c @@ p : c \in { <<>>, [code |-> 200] }, p \in payloads }

ErrorEnvelopes ==
    { [code |-> c] : c \in {400, 401, 500} }
    \cup { [code |-> c, message |-> m] : c \in {400, 401, 500}, m \in MessageTexts }

\* The outcome of one session.get / session.post: an exception of the
\* transport, or a response with a status and (for status 200) a JSON body.
TransportFailures ==
    { [kind |-> "TimeoutError"],
      [kind |-> "ServerDisconnectedError"],
      [kind |-> "ClientError"] }

Replies(payloads) ==
    TransportFailures
    \cup { [kind |-> "response", status |-> 500, rj |-> <<>>] }
    \cup { [kind |-> "response", status |-> 200, rj |-> e] :
             e \in SuccessEnvelopes(payloads) \cup ErrorEnvelopes }

IsSuccess(t) ==
    /\ t.kind = "response"
    /\ t.status = 200
    /\ (Has(t.rj, "code") => t.rj.code = 200)

LoginPayloads == { <<>>, [data |-> <<>>] } \cup { [data |-> [token |-> k]] : k \in Tokens }
InfoPayloads == { <<>> } \cup { [data |-> [aoVol |-> v]] : v \in Volumes }
\* The answer to /device/edit: no echo, the property echoed at the top
\* level of the envelope, or echoed inside its data object.
EditPayloads ==
    { <<>> }
    \cup { [aoVol |-> v] : v \in Volumes }
    \cup { [data |-> [aoVol |-> v]] : v \in Volumes }
ListPayloads(files) == { <<>>, [data |-> <<>>], [data |-> [files |-> files]] }
NoPayloads == { <<>> }

(* ------------------------------ state --------------------------------- *)
VARIABLES
    headers,        \* DahuaClient._headers: None, else the X-Token value
    devFiles,       \* the device's files: name -> [name, id, playStatus]
    lastCall,       \* the last client request: who sent what and how it ended
    phase,          \* the config entry: where its setup stands
    attr_available, \* DahuaSpeaker._attr_available
    attr_state,     \* DahuaSpeaker._attr_state
    device_info,    \* DahuaSpeaker._device_info
    reload_pending, \* a config_entries.async_reload task has been created
    inv,            \* the wrapped entity operation that is running
    done            \* how the last wrapped entity operation ended

clientVars == <<headers, devFiles, lastCall>>
entityVars == <<phase, attr_available, attr_state, device_info, reload_pending, inv, done>>
vars == <<clientVars, entityVars>>

(* --------------------------- dahua_client.py -------------------------- *)
\* Mutant of handle_error: the HTTP status is not looked at.
handle_error_ignores_status(res) ==
    IF res.status = 200 /\ Has(res.rj, "code") /\ res.rj.code # 200
    THEN IF res.rj.code = 401 THEN "AuthError"
         ELSE IF res.rj.code = 400
              THEN IF ~Has(res.rj, "message") THEN "TypeError"
                   ELSE IF Contains(CredentialsText, res.rj.message)
                        THEN "AuthError"
                        ELSE "HomeAssistantError"
              ELSE "HomeAssistantError"
    ELSE "none"

\* Mutant of handle_error: the message is searched before the code is
\* compared with 401.
handle_error_message_first(res) ==
    IF res.status # 200 THEN "HomeAssistantError"
    ELSE IF Has(res.rj, "code") /\ res.rj.code # 200
         THEN IF res.rj.code \in {400, 401}
              THEN IF ~Has(res.rj, "message") THEN "TypeError"
                   ELSE IF res.rj.code = 401
                           \/ Contains(CredentialsText, res.rj.message)
                        THEN "AuthError"
                        ELSE "HomeAssistantError"
              ELSE "HomeAssistantError"
         ELSE "none"

\* _handle_error: the exception it raises for a response, "none" if none.
handle_error(res) ==
    IF res.status # 200 THEN "HomeAssistantError"
    ELSE IF Has(res.rj, "code") /\ res.rj.code # 200
         THEN IF res.rj.code = 401 THEN "AuthError"
              ELSE IF res.rj.code = 400
                   THEN IF ~Has(res.rj, "message") THEN "TypeError"
                        ELSE IF Contains(CredentialsText, res.rj.message)
                             THEN "AuthError"
                             ELSE "HomeAssistantError"
                   ELSE "HomeAssistantError"
         ELSE "none"

\* try: async with session.request(...) as res: await self._handle_error(res)
\* except TimeoutError / ClientError: raise ConnectError(...) from err
request(t) ==
    IF t.kind = "response"
    THEN [exc |-> handle_error(t), cause |-> "none"]
    ELSE [exc |-> "ConnectError", cause |-> t.kind]


Raise(e, c) == [exc |-> e, cause |-> c, ret |-> <<>>]
Return(v) == [exc |-> "none", cause |-> "none", ret |-> v]

\* rj.get("data", {})
data_of(rj) == IF Has(rj, "data") THEN rj.data ELSE <<>>

\* Mutant of login: the header is stored before the token is checked.
login_stores_before_check(t, hdrs) ==
    LET r == request(t) IN
    IF r.exc # "none" THEN [res |-> Raise(r.exc, r.cause), headers |-> hdrs]
    ELSE IF ~Has(data_of(t.rj), "token")
         THEN [res |-> Raise("HomeAssistantError", "none"), headers |-> None]
         ELSE [res |-> Return(<<>>), headers |-> data_of(t.rj).token]

\* Mutant of login: a rejected login forgets the stored token.
login_clears_on_failure(t, hdrs) ==
    LET r == request(t) IN
    IF r.exc # "none"
    THEN [res |-> Raise(r.exc, r.cause),
          headers |-> IF r.exc = "AuthError" THEN None ELSE hdrs]
    ELSE IF ~Has(data_of(t.rj), "token")
         THEN [res |-> Raise("HomeAssistantError", "none"), headers |-> hdrs]
         ELSE [res |-> Return(<<>>), headers |-> data_of(t.rj).token]

\* Mutant of login: the token of the answer is not stored.
login_forgets_token(t, hdrs) ==
    LET r == request(t) IN
    IF r.exc # "none" THEN [res |-> Raise(r.exc, r.cause), headers |-> hdrs]
    ELSE IF ~Has(data_of(t.rj), "token")
         THEN [res |-> Raise("HomeAssistantError", "none"), headers |-> hdrs]
         ELSE [res |-> Return(<<>>), headers |-> hdrs]

\* login: the result, and the value of self._headers afterwards.
login(t, hdrs) ==
    LET r == request(t) IN
    IF r.exc # "none" THEN [res |-> Raise(r.exc, r.cause), headers |-> hdrs]
    ELSE IF ~Has(data_of(t.rj), "token")
         THEN [res |-> Raise("HomeAssistantError", "none"), headers |-> hdrs]
         ELSE [res |-> Return(<<>>), headers |-> data_of(t.rj).token]

get_device_info(t) ==
    LET r == request(t) IN
    IF r.exc # "none" THEN Raise(r.exc, r.cause) ELSE Return(data_of(t.rj))

\* Mutant of set_property: the answer is not read.
set_property_returns_requested(t, name, value) ==
    LET r == request(t) IN
    IF r.exc # "none" THEN Raise(r.exc, r.cause) ELSE Return(value)

\* _set_property: (await res.json()).get(name, value)
set_property(t, name, value) ==
    LET r == request(t) IN
    IF r.exc # "none" THEN Raise(r.exc, r.cause)
    ELSE Return(IF Has(t.rj, name) THEN t.rj[name] ELSE value)

VOLUME_KEY == "aoVol"

set_volume(t, volume) == set_property(t, VOLUME_KEY, volume)

\* fetch_file_list: {file["name"]: file for file in files}; the listing is
\* held keyed by name already, an absent "files" is the empty listing.
fetch_file_list(t) ==
    LET r == request(t) IN
    IF r.exc # "none" THEN Raise(r.exc, r.cause)
    ELSE Return(IF Has(data_of(t.rj), "files") THEN data_of(t.rj).files ELSE <<>>)

\* Local paths: the base name and the suffix mimetypes.guess_type looks at.
LocalPaths ==
    { [base |-> n, suffix |-> ".mp3"] : n \in Names }
    \cup { [base |-> "c.wav", suffix |-> ".wav"] }

guess_type(path) == IF path.suffix = ".mp3" THEN "audio/mpeg" ELSE "audio/x-wav"

\* Mutant of push_file_precheck: the content type is not looked at.
push_file_precheck_exists_only(path, exists) ==
    IF ~exists THEN "FileNotFoundError" ELSE "none"

\* push_file, before the upload: the exception of the precondition checks.
push_file_precheck(path, exists) ==
    IF ~exists THEN "FileNotFoundError"
    ELSE IF guess_type(path) # "audio/mpeg" THEN "HomeAssistantError"
    ELSE "none"

\* push_file: name defaults to os.path.basename(file_path); "" is None.
push_file_name(path, name) == IF name = "" THEN path.base ELSE name

\* push_file, the upload request.
push_file_upload(t) == request(t)

\* Mutant of push_file_verify: the listing is read but the name is not
\* looked for in it.
push_file_verify_optimistic(t, name) ==
    LET f == fetch_file_list(t) IN
    IF f.exc # "none" THEN f
    ELSE Return(IF Has(f.ret, name) THEN f.ret[name] ELSE <<>>)

\* push_file, after the upload: files = fetch_file_list(); name in files.
push_file_verify(t, name) ==
    LET f == fetch_file_list(t) IN
    IF f.exc # "none" THEN f
    ELSE IF ~Has(f.ret, name) THEN Raise("HomeAssistantError", "none")
    ELSE Return(f.ret[name])

play_file(t) ==
    LET r == request(t) IN
    IF r.exc # "none" THEN Raise(r.exc, r.cause) ELSE Return(<<>>)

(* ------------------------------ the device ---------------------------- *)
\* Whether the device may have stored an uploaded file, given its answer:
\* a success answer can hide a silent rejection, a lost answer can hide a
\* stored file, an error answer means nothing was stored.
StoredOptions(t) ==
    IF t.kind # "response" \/ IsSuccess(t) THEN BOOLEAN ELSE {FALSE}

\* The opaque identifier the device gives a stored file.
DeviceId(name) == IF name = "a.mp3" THEN 1 ELSE 2

DeviceStore(files, name, stored) ==
    IF stored /\ ~Has(files, name)
    THEN files @@ (name :> [name |-> name, id |-> DeviceId(name), playStatus |-> 0])
    ELSE files

\* POST /program/start {id}: a success answer starts the file with that id.
DevicePlay(files, t, id) ==
    IF IsSuccess(t)
    THEN [n \in DOMAIN files |->
            [files[n] EXCEPT !.playStatus = IF files[n].id = id THEN 1 ELSE 0]]
    ELSE files

\* The record of a request: hdr is the X-Token sent (None: no header),
\* before is self._headers as the operation found it.
Call(op, endpoint, hdr, t, res) ==
    [op |-> op, endpoint |-> endpoint, token |-> hdr, before |-> headers,
     reply |-> t, exc |-> res.exc, cause |-> res.cause, ret |-> res.ret]

Sent(op, endpoint, hdr) == [op |-> op, endpoint |-> endpoint, token |-> hdr]

Idle == [op |-> "none"]

(* ------------------- the client, called directly ---------------------- *)
Init ==
    /\ headers = None
    /\ devFiles \in { <<>>, DeviceStore(<<>>, "a.mp3", TRUE) }
    /\ lastCall = [op |-> "none"]
    /\ phase = "setup_login"
    /\ attr_available = TRUE
    /\ attr_state = "None"
    /\ device_info = <<>>
    /\ reload_pending = FALSE
    /\ inv = Idle
    /\ done = [op |-> "none"]

Call_login ==
    \E t \in Replies(LoginPayloads) :
        LET r == login(t, headers) IN
        /\ headers' = r.headers
        /\ lastCall' = Call("login", "login", None, t, r.res)
        /\ UNCHANGED <<devFiles, entityVars>>

Call_get_device_info ==
    \E t \in Replies(InfoPayloads) :
        /\ lastCall' = Call("get_device_info", "info", headers, t, get_device_info(t))
        /\ UNCHANGED <<headers, devFiles, entityVars>>

Call_set_volume ==
    \E t \in Replies(EditPayloads), v \in Volumes :
        /\ lastCall' = Call("set_volume", "edit", headers, t, set_volume(t, v))
                        @@ [volume |-> v]
        /\ UNCHANGED <<headers, devFiles, entityVars>>

Call_fetch_file_list ==
    \E t \in Replies(ListPayloads(devFiles)) :
        /\ lastCall' = Call("fetch_file_list", "list", headers, t, fetch_file_list(t))
        /\ UNCHANGED <<headers, devFiles, entityVars>>

\* What is kept of one push_file call: its arguments, whether the local
\* file exists, and the requests it sent to the device, in order.
PushArgs(path, exists, nm, requests) ==
    [path |-> path, exists |-> exists, override |-> nm, requests |-> requests]

Call_push_file ==
    \E path \in LocalPaths, exists \in BOOLEAN, nm \in {"", "b.mp3"} :
        LET pre == push_file_precheck(path, exists)
            name == push_file_name(path, nm)
        IN
        IF pre # "none"
        THEN /\ lastCall' = [op |-> "push_file", endpoint |-> "none",
                             before |-> headers,
                             exc |-> pre, cause |-> "none", ret |-> <<>>]
                            @@ PushArgs(path, exists, nm, <<>>)
             /\ UNCHANGED <<headers, devFiles, entityVars>>
        ELSE \E t1 \in Replies(NoPayloads) : \E stored \in StoredOptions(t1) :
                LET up == push_file_upload(t1)
                    dev == DeviceStore(devFiles, name, stored)
                IN
                /\ devFiles' = dev
                /\ UNCHANGED <<headers, entityVars>>
                /\ IF up.exc # "none"
                   THEN lastCall' = Call("push_file", "upload", headers, t1,
                                         Raise(up.exc, up.cause))
                                    @@ PushArgs(path, exists, nm, <<"upload">>)
                   ELSE \E t2 \in Replies(ListPayloads(dev)) :
                            lastCall' = Call("push_file", "list", headers, t2,
                                             push_file_verify(t2, name))
                                        @@ PushArgs(path, exists, nm, <<"upload", "list">>)

Call_play_file ==
    \E t \in Replies(NoPayloads), id \in {DeviceId(n) : n \in Names} :
        /\ lastCall' = Call("play_file", "start", headers, t, play_file(t))
        /\ devFiles' = DevicePlay(devFiles, t, id)
        /\ UNCHANGED <<headers, entityVars>>

\* The device finishes playing on its own.
DevicePlaybackEnds ==
    /\ \E n \in DOMAIN devFiles : devFiles[n].playStatus = 1
    /\ devFiles' = [n \in DOMAIN devFiles |-> [devFiles[n] EXCEPT !.playStatus = 0]]
    /\ UNCHANGED <<headers, lastCall, entityVars>>

ClientNext ==
    \/ Call_login
    \/ Call_get_device_info
    \/ Call_set_volume
    \/ Call_fetch_file_list
    \/ Call_push_file
    \/ Call_play_file
    \/ DevicePlaybackEnds

ClientSpec == Init /\ [][ClientNext]_vars



(* ----------------------------- __init__.py ---------------------------- *)
\* Mutant of setup_failure: an AuthError is answered like a ConnectError.
setup_failure_always_retry(exc) ==
    IF exc = "ConnectError" \/ exc = "AuthError" THEN "ConfigEntryNotReady"
    ELSE "setup_error"

\* async_setup_entry: what a failed login / get_device_info ends setup with.
setup_failure(exc) ==
    IF exc = "ConnectError" THEN "ConfigEntryNotReady"
    ELSE IF exc = "AuthError" THEN "ConfigEntryAuthFailed"
    ELSE "setup_error"

\* client = DahuaClient(...); await client.login()
Setup_login ==
    /\ phase = "setup_login"
    /\ \E t \in Replies(LoginPayloads) :
        LET r == login(t, headers) IN
        /\ headers' = r.headers
        /\ lastCall' = Sent("login", "login", None) @@ [exc |-> r.res.exc]
        /\ phase' = IF r.res.exc = "none" THEN "setup_info" ELSE setup_failure(r.res.exc)
    /\ UNCHANGED <<devFiles, attr_available, attr_state, device_info,
                   reload_pending, inv, done>>

\* device_info = await client.get_device_info(); runtime_data is stored, the
\* platform creates DahuaSpeaker(entry, client, device_info, name), whose
\* constructor reads device_info["mac"], and adds it.
Setup_get_device_info ==
    /\ phase = "setup_info"
    /\ \E t \in Replies(InfoPayloads) :
        LET r == get_device_info(t) IN
        /\ lastCall' = Sent("get_device_info", "info", headers) @@ [exc |-> r.exc]
        /\ IF r.exc # "none"
           THEN /\ phase' = setup_failure(r.exc)
                /\ UNCHANGED <<device_info, attr_available, attr_state>>
           ELSE /\ device_info' = r.ret
                /\ phase' = IF r.ret = <<>> THEN "no_entity" ELSE "loaded"
                /\ attr_available' = TRUE
                /\ attr_state' = "None"
    /\ UNCHANGED <<headers, devFiles, reload_pending, inv, done>>

\* entry.runtime_data = DahuaSpeakerData(client, device_info) has run.
runtime_data_stored == phase \in {"no_entity", "loaded"}

\* async_add_entities([DahuaSpeaker(...)]) has run.
entity_exists == phase = "loaded"

\* The host sets the entry up again (after ConfigEntryNotReady, after the
\* reauth flow, or by hand): a new client, with no token.
Setup_again ==
    /\ phase \in {"ConfigEntryNotReady", "ConfigEntryAuthFailed", "setup_error", "no_entity"}
    /\ phase' = "setup_login"
    /\ headers' = None
    /\ UNCHANGED <<devFiles, lastCall, attr_available, attr_state,
                   device_info, reload_pending, inv, done>>

\* The async_reload task runs: the entry is unloaded, which discards the
\* entity and the client, and setup runs again.
Reload ==
    /\ phase = "loaded"
    /\ reload_pending
    /\ inv = Idle
    /\ reload_pending' = FALSE
    /\ phase' = "setup_login"
    /\ headers' = None
    /\ attr_available' = TRUE
    /\ attr_state' = "None"
    /\ device_info' = <<>>
    /\ done' = [op |-> "none"]
    /\ lastCall' = [op |-> "none"]
    /\ UNCHANGED <<devFiles, inv>>

(* --------------------------- media_player.py -------------------------- *)
\* for i in range(2)
Attempts == 2

\* Mutant of catch_dahua_errors: a server disconnect is raised at once.
catch_dahua_errors_raise_first(i, res, available) ==
    IF res.exc = "none" THEN [next |-> "break", available |-> available]
    ELSE IF res.exc = "ConnectError"
         THEN IF res.cause = "ServerDisconnectedError"
              THEN [next |-> "raise", available |-> available]
              ELSE IF available THEN [next |-> "break", available |-> FALSE]
                   ELSE [next |-> "loop", available |-> available]
         ELSE [next |-> "raise", available |-> available]

\* Mutant of catch_dahua_errors: every attempt that succeeds restores the
\* availability flag.
catch_dahua_errors_restores(i, res, available) ==
    IF res.exc = "none" THEN [next |-> "break", available |-> TRUE]
    ELSE IF res.exc = "ConnectError"
         THEN IF res.cause = "ServerDisconnectedError"
              THEN IF i # 0 THEN [next |-> "raise", available |-> available]
                   ELSE [next |-> "loop", available |-> available]
              ELSE IF available THEN [next |-> "break", available |-> FALSE]
                   ELSE [next |-> "loop", available |-> available]
         ELSE [next |-> "raise", available |-> available]

\* Mutant of catch_dahua_errors: every exception is handled the way the
\* ConnectErrors are.
catch_dahua_errors_catches_all(i, res, available) ==
    IF res.exc = "none" THEN [next |-> "break", available |-> available]
    ELSE IF res.cause = "ServerDisconnectedError"
         THEN IF i # 0 THEN [next |-> "raise", available |-> available]
              ELSE [next |-> "loop", available |-> available]
         ELSE IF available THEN [next |-> "break", available |-> FALSE]
              ELSE [next |-> "loop", available |-> available]

\* catch_dahua_errors, after one attempt that ended with res: what the loop
\* does next and the availability flag it leaves.
catch_dahua_errors(i, res, available) ==
    IF res.exc = "none" THEN [next |-> "break", available |-> available]
    ELSE IF res.exc = "ConnectError"
         THEN IF res.cause = "ServerDisconnectedError"
              THEN IF i # 0 THEN [next |-> "raise", available |-> available]
                   ELSE [next |-> "loop", available |-> available]
              ELSE IF available THEN [next |-> "break", available |-> FALSE]
                   ELSE [next |-> "loop", available |-> available]
         ELSE [next |-> "raise", available |-> available]

FirstPc(op) ==
    IF op = "async_update" THEN "fetch"
    ELSE IF op = "async_set_volume_level" THEN "edit"
    ELSE "resolve"

\* The locals of one attempt of the wrapped function, as it starts; media
\* is what the resolved media turned out to be, requests the requests the
\* attempt has sent to the device, files the listing async_update fetched,
\* tf whether the attempt has created its NamedTemporaryFile.
StartAttempt(op, arg, i, tries) ==
    [op |-> op, arg |-> arg, i |-> i, pc |-> FirstPc(op), tries |-> tries,
     name |-> "", listed |-> "unknown", listed_id |-> 0, new_file_id |-> 0,
     file_id |-> 0, uploads |-> 0, plays |-> <<>>, caught |-> "none",
     new_volume |-> None, media |-> "unknown", requests |-> <<>>,
     files |-> <<>>, tf |-> "none"]

\* What is kept of the last attempt of a finished invocation.
LastAttempt(v) ==
    [name |-> v.name, listed |-> v.listed, listed_id |-> v.listed_id,
     new_file_id |-> v.new_file_id, uploads |-> v.uploads, plays |-> v.plays,
     caught |-> v.caught, new_volume |-> v.new_volume,
     media |-> v.media, requests |-> v.requests, files |-> v.files]

\* tf = tempfile.NamedTemporaryFile(suffix=".mp3") is never closed by the
\* code: the file is removed when the object is finalized. A normal return
\* drops the only reference; after an exception the traceback keeps the
\* frame, and with it tf, for as long as the exception is kept, so whether
\* the file is gone when the attempt has ended is up to the runtime.
tf_after(tf, res) ==
    IF tf = "none" THEN {"none"}
    ELSE IF res.exc = "none" THEN {"deleted"}
    ELSE {"deleted", "exists"}

\* An attempt ended with res; avail is the flag as the attempt left it and
\* v the attempt's locals.
AttemptEnds(res, avail, v) ==
    \E fate \in tf_after(v.tf, res) :
    LET d == catch_dahua_errors(inv.i, res, avail)
        tries == Append(inv.tries, [exc |-> res.exc, cause |-> res.cause,
                                    tf |-> fate])
    IN
    /\ attr_available' = d.available
    /\ IF d.next = "loop" /\ inv.i + 1 < Attempts
       THEN /\ inv' = StartAttempt(inv.op, inv.arg, inv.i + 1, tries)
            /\ UNCHANGED done
       ELSE /\ inv' = Idle
            /\ done' = [op |-> inv.op,
                        result |-> IF d.next = "raise" THEN "raised" ELSE "returned",
                        exc |-> IF d.next = "raise" THEN res.exc ELSE "none",
                        cause |-> IF d.next = "raise" THEN res.cause ELSE "none",
                        tries |-> tries,
                        last |-> LastAttempt(v)]

MediaItems ==
    { [kind |-> "unsupported"],
      [kind |-> "local", path |-> [base |-> "a.mp3", suffix |-> ".mp3"]],
      [kind |-> "local", path |-> [base |-> "c.wav", suffix |-> ".wav"]] }
    \cup { [kind |-> "remote", name |-> "b.mp3"] }

Operations == {"async_update", "async_set_volume_level", "async_play_media"}

Arguments(op) ==
    IF op = "async_update" THEN {0}
    ELSE IF op = "async_set_volume_level" THEN Volumes
    ELSE MediaItems

\* The host calls a wrapped method of the entity.
Invoke ==
    /\ phase = "loaded"
    /\ inv = Idle
    /\ \E op \in Operations : \E arg \in Arguments(op) :
            inv' = StartAttempt(op, arg, 0, <<>>)
    /\ done' = [op |-> "none"]
    /\ UNCHANGED <<clientVars, phase, attr_available, attr_state, device_info,
                   reload_pending>>

\* Mutant of any_playing: every listed file has to be playing.
any_playing_every(files) == \A n \in DOMAIN files : files[n].playStatus = 1

\* any([True for f in files.values() if f["playStatus"] == 1])
any_playing(files) == \E n \in DOMAIN files : files[n].playStatus = 1

\* Mutant of update_catches: async_update has no except clause.
update_catches_nothing(exc) == FALSE

\* async_update: except AuthError
update_catches(exc) == exc = "AuthError"

async_update ==
    /\ inv.op = "async_update" /\ inv.pc = "fetch"
    /\ \E t \in Replies(ListPayloads(devFiles)) :
        LET r == fetch_file_list(t)
            q == [inv EXCEPT !.requests = Append(@, "list")]
        IN
        /\ lastCall' = Sent("fetch_file_list", "list", headers)
        /\ IF update_catches(r.exc)
           THEN /\ reload_pending' = TRUE
                /\ UNCHANGED attr_state
                /\ AttemptEnds(Return(<<>>), attr_available,
                               [q EXCEPT !.caught = r.exc])
           ELSE IF r.exc # "none"
           THEN /\ UNCHANGED <<reload_pending, attr_state>>
                /\ AttemptEnds(r, attr_available, q)
           ELSE /\ attr_state' = IF any_playing(r.ret) THEN "PLAYING" ELSE "IDLE"
                /\ UNCHANGED reload_pending
                /\ AttemptEnds(Return(<<>>), TRUE, [q EXCEPT !.listed = "fetched", !.files = r.ret])
    /\ UNCHANGED <<headers, devFiles, phase, device_info>>

\* Mutant of cache_volume: the requested volume is cached, whatever the
\* outcome of set_volume.
cache_volume_requested(info, res, volume) == [info EXCEPT ![VOLUME_KEY] = volume]

\* new_volume = await set_volume(...); self._device_info[VOLUME_KEY] = new_volume
cache_volume(info, res, volume) ==
    IF res.exc = "none" THEN [info EXCEPT ![VOLUME_KEY] = res.ret] ELSE info

async_set_volume_level ==
    /\ inv.op = "async_set_volume_level" /\ inv.pc = "edit"
    /\ \E t \in Replies(EditPayloads) :
        LET r == set_volume(t, inv.arg)
            q == [inv EXCEPT !.requests = Append(@, "edit")]
        IN
        /\ lastCall' = Sent("set_volume", "edit", headers)
        /\ device_info' = cache_volume(device_info, r, inv.arg)
        /\ AttemptEnds(r, attr_available,
                       IF r.exc = "none" THEN [q EXCEPT !.new_volume = r.ret] ELSE q)
    /\ UNCHANGED <<headers, devFiles, phase, attr_state, reload_pending>>

\* What fetching a remote media url can end in (lines 194-203): the file,
\* a status other than 200, a content type other than audio/mpeg, or an
\* aiohttp error, which nothing here converts to ConnectError, raised by
\* session.get or ("chunk") while the body is read into the temporary file.
Downloads == {"ok", "status", "content_type", "ClientError", "chunk"}

\* Whether the download got as far as tempfile.NamedTemporaryFile.
tf_created(arg, dl) ==
    IF arg.kind = "remote" /\ dl \in {"ok", "chunk"} THEN "created" ELSE "none"

\* What the resolved media is: an MP3, something else, or nothing that
\* could be fetched.
media_kind(arg, dl) ==
    IF arg.kind = "local"
    THEN IF arg.path.suffix = ".mp3" THEN "mp3" ELSE "not_mp3"
    ELSE IF dl \in {"ok", "chunk"} THEN "mp3"
         ELSE IF dl = "content_type" THEN "not_mp3" ELSE "no_file"

\* Mutant of play_validation: the suffix of a local file is not looked at.
play_validation_skips_suffix(arg, dl) ==
    IF arg.kind = "local" THEN "none"
    ELSE IF dl \in {"ClientError", "chunk"} THEN "ClientError"
         ELSE IF dl # "ok" THEN "HomeAssistantError" ELSE "none"

\* Lines 191-205: the exception the download or the MP3 check raises.
play_validation(arg, dl) ==
    IF arg.kind = "local"
    THEN IF arg.path.suffix # ".mp3" THEN "HomeAssistantError" ELSE "none"
    ELSE IF dl \in {"ClientError", "chunk"} THEN "ClientError"
         ELSE IF dl # "ok" THEN "HomeAssistantError" ELSE "none"

\* name = os.path.basename(media_id)
media_name(arg) == IF arg.kind = "local" THEN arg.path.base ELSE arg.name

\* async_play_media up to the first device call: media id check, media
\* resolution, local path or download, MP3 check.
play_resolve ==
    /\ inv.op = "async_play_media" /\ inv.pc = "resolve"
    /\ IF inv.arg.kind = "unsupported"
       THEN AttemptEnds(Return(<<>>), attr_available, inv)
       ELSE \E dl \in (IF inv.arg.kind = "local" THEN {"ok"} ELSE Downloads) :
            LET v == [inv EXCEPT !.media = media_kind(inv.arg, dl),
                                 !.tf = tf_created(inv.arg, dl)]
                e == play_validation(inv.arg, dl)
            IN
            IF e # "none"
            THEN AttemptEnds(Raise(e, "none"), attr_available, v)
            ELSE /\ inv' = [v EXCEPT !.pc = "list", !.name = media_name(inv.arg)]
                 /\ UNCHANGED <<attr_available, done>>
    /\ UNCHANGED <<clientVars, phase, attr_state, device_info, reload_pending>>

\* Mutant of needs_upload: the listing is not consulted.
needs_upload_always(files, name) == TRUE

\* if name not in files: push_file ... else: file_id = files[name]["id"]
needs_upload(files, name) == ~Has(files, name)

existing_file_id(files, name) == files[name].id

\* files = await self._client.fetch_file_list(); if name not in files
play_list ==
    /\ inv.op = "async_play_media" /\ inv.pc = "list"
    /\ \E t \in Replies(ListPayloads(devFiles)) :
        LET r == fetch_file_list(t)
            q == [inv EXCEPT !.requests = Append(@, "list")]
        IN
        /\ lastCall' = Sent("fetch_file_list", "list", headers)
        /\ IF r.exc # "none"
           THEN AttemptEnds(r, attr_available, q)
           ELSE /\ inv' = IF needs_upload(r.ret, inv.name)
                          THEN [q EXCEPT !.pc = "upload",
                                           !.listed = IF Has(r.ret, inv.name)
                                                      THEN "present" ELSE "absent",
                                           !.listed_id = IF Has(r.ret, inv.name)
                                                         THEN r.ret[inv.name].id ELSE 0]
                          ELSE [q EXCEPT !.pc = "play",
                                           !.listed = IF Has(r.ret, inv.name)
                                                      THEN "present" ELSE "absent",
                                           !.listed_id = IF Has(r.ret, inv.name)
                                                         THEN r.ret[inv.name].id ELSE 0,
                                           !.file_id = existing_file_id(r.ret, inv.name)]
                /\ UNCHANGED <<attr_available, done>>
    /\ UNCHANGED <<headers, devFiles, phase, attr_state, device_info, reload_pending>>

\* The path handed to push_file: the local MP3, or the temporary file.
play_file_path(arg) ==
    IF arg.kind = "local" THEN arg.path ELSE [base |-> "tmp.mp3", suffix |-> ".mp3"]

\* Whether the path still exists when push_file looks: the temporary file
\* is held open by the attempt, a local media file can have been removed
\* since async_play_media found it.
StillExists(arg) == IF arg.kind = "local" THEN BOOLEAN ELSE {TRUE}

\* new_file = await self._client.push_file(file_path, name=name): the
\* precondition checks and the upload request.
play_push_upload ==
    /\ inv.op = "async_play_media" /\ inv.pc = "upload"
    /\ \E exists \in StillExists(inv.arg) :
       LET pre == push_file_precheck(play_file_path(inv.arg), exists) IN
       IF pre # "none"
       THEN /\ AttemptEnds(Raise(pre, "none"), attr_available, inv)
            /\ UNCHANGED <<devFiles, lastCall>>
       ELSE \E t \in Replies(NoPayloads) : \E stored \in StoredOptions(t) :
            LET up == push_file_upload(t)
                nm == push_file_name(play_file_path(inv.arg), inv.name)
                v == [inv EXCEPT !.uploads = @ + 1,
                                 !.requests = Append(@, "upload")]
            IN
            /\ devFiles' = DeviceStore(devFiles, nm, stored)
            /\ lastCall' = Sent("push_file", "upload", headers)
            /\ IF up.exc # "none"
               THEN AttemptEnds(Raise(up.exc, up.cause), attr_available, v)
               ELSE /\ inv' = [v EXCEPT !.pc = "verify"]
                    /\ UNCHANGED <<attr_available, done>>
    /\ UNCHANGED <<headers, phase, attr_state, device_info, reload_pending>>

\* push_file's check of the listing, and file_id = new_file["id"]
play_push_verify ==
    /\ inv.op = "async_play_media" /\ inv.pc = "verify"
    /\ \E t \in Replies(ListPayloads(devFiles)) :
        LET r == push_file_verify(t, push_file_name(play_file_path(inv.arg), inv.name))
            q == [inv EXCEPT !.requests = Append(@, "list")]
        IN
        /\ lastCall' = Sent("push_file", "list", headers)
        /\ IF r.exc # "none"
           THEN AttemptEnds(r, attr_available, q)
           ELSE /\ inv' = [q EXCEPT !.pc = "play", !.new_file_id = r.ret.id,
                                      !.file_id = r.ret.id]
                /\ UNCHANGED <<attr_available, done>>
    /\ UNCHANGED <<headers, devFiles, phase, attr_state, device_info, reload_pending>>

\* await self._client.play_file(file_id)
play_play ==
    /\ inv.op = "async_play_media" /\ inv.pc = "play"
    /\ \E t \in Replies(NoPayloads) :
        LET r == play_file(t) IN
        /\ lastCall' = Sent("play_file", "start", headers)
        /\ devFiles' = DevicePlay(devFiles, t, inv.file_id)
        /\ AttemptEnds(r, attr_available, [inv EXCEPT !.plays = Append(@, inv.file_id),
                                   !.requests = Append(@, "start")])
    /\ UNCHANGED <<headers, phase, attr_state, device_info, reload_pending>>

Next ==
    \/ Setup_login
    \/ Setup_get_device_info
    \/ Setup_again
    \/ Reload
    \/ Invoke
    \/ async_update
    \/ async_set_volume_level
    \/ play_resolve
    \/ play_list
    \/ play_push_upload
    \/ play_push_verify
    \/ play_play
    \/ DevicePlaybackEnds

Spec == Init /\ [][Next]_vars


(* ====================================================================== *)
(* Claims about the client (ClientSpec)                                   *)
(* ====================================================================== *)
\* The last request was answered with an HTTP response.
Answered ==
    /\ lastCall.op # "none"
    /\ lastCall.endpoint # "none"
    /\ lastCall.reply.kind = "response"

AnsweredNot200 == Answered /\ lastCall.reply.status # 200

AnsweredCode(c) ==
    /\ Answered
    /\ lastCall.reply.status = 200
    /\ Has(lastCall.reply.rj, "code")
    /\ lastCall.reply.rj.code = c

\* C1 as stated: every client operation answered with an HTTP status other
\* than 200 fails with ConnectError.
C1_Not200IsConnectError ==
    AnsweredNot200 => lastCall.exc = "ConnectError"

\* C1 amended: every client operation answered with an HTTP status other
\* than 200 fails with the generic HomeAssistantError (neither ConnectError
\* nor AuthError), whatever the operation.
C1_Not200IsHomeAssistantError ==
    AnsweredNot200 => lastCall.exc = "HomeAssistantError"

C1_Witness ==
    /\ AnsweredNot200
    /\ lastCall.op = "push_file"
    /\ lastCall.endpoint = "list"
    /\ lastCall.exc = "HomeAssistantError"

\* C2: every client operation answered with status 200 and application code
\* 401 fails with AuthError, whatever the message, an absent one included.
C2_Code401IsAuthError ==
    AnsweredCode(401) => lastCall.exc = "AuthError"

C2_Witness ==
    /\ AnsweredCode(401)
    /\ ~Has(lastCall.reply.rj, "message")
    /\ lastCall.op = "play_file"
    /\ lastCall.exc = "AuthError"

\* C3 as stated: a response with status 200 and code 400 fails with
\* AuthError when its message contains "username or password", and with the
\* generic application error for every other response with code 400.
C3_Code400 ==
    AnsweredCode(400) =>
        IF Has(lastCall.reply.rj, "message")
           /\ Contains(CredentialsText, lastCall.reply.rj.message)
        THEN lastCall.exc = "AuthError"
        ELSE lastCall.exc = "HomeAssistantError"

\* A success envelope without a token answered the last login.
LoginWithoutToken ==
    /\ lastCall.op = "login"
    /\ IsSuccess(lastCall.reply)
    /\ ~Has(data_of(lastCall.reply.rj), "token")

\* C4 as stated: login answered with a success envelope that holds no token
\* fails with ConnectError and leaves the stored token as it was.
C4_NoTokenIsConnectError ==
    LoginWithoutToken =>
        /\ lastCall.exc = "ConnectError"
        /\ headers = lastCall.before

\* C4 amended: login answered with a success envelope that holds no token
\* fails with the generic HomeAssistantError (not ConnectError) and leaves
\* the stored token as it was.
C4_NoTokenIsHomeAssistantError ==
    LoginWithoutToken =>
        /\ lastCall.exc = "HomeAssistantError"
        /\ headers = lastCall.before

C4_Witness ==
    /\ LoginWithoutToken
    /\ Has(lastCall.reply.rj, "data")
    /\ lastCall.before \in Tokens
    /\ headers = lastCall.before

\* C5: the token is absent until a login succeeds; a successful login stores
\* the token of its answer; a failed login and every other operation,
\* successful or failed, leave the token as it was.
C5_TokenChangedOnlyByLogin ==
    /\ lastCall.op = "none" => headers = None
    /\ lastCall.op # "none" =>
        IF lastCall.op = "login" /\ lastCall.exc = "none"
        THEN headers = lastCall.reply.rj.data.token
        ELSE headers = lastCall.before

\* A successful login overwrote a different token.
C5_Witness ==
    /\ lastCall.op = "login"
    /\ lastCall.exc = "none"
    /\ lastCall.before \in Tokens
    /\ headers \in Tokens
    /\ headers # lastCall.before

\* C11: push_file sends no request when its preconditions fail: a missing
\* local file fails with FileNotFoundError and an existing file whose type
\* is not audio/mpeg fails with the validation error, both with no request
\* sent; only a call that passed both checks sends the upload.
C11_PrecheckBeforeRequests ==
    lastCall.op = "push_file" =>
        /\ ~lastCall.exists =>
              (lastCall.exc = "FileNotFoundError" /\ lastCall.requests = <<>>)
        /\ (lastCall.exists /\ guess_type(lastCall.path) # "audio/mpeg") =>
              (lastCall.exc = "HomeAssistantError" /\ lastCall.requests = <<>>)
        /\ lastCall.requests # <<>> =>
              /\ lastCall.exists
              /\ guess_type(lastCall.path) = "audio/mpeg"
              /\ lastCall.requests[1] = "upload"

\* An existing .wav file was refused although a token is stored.
C11_Witness ==
    /\ lastCall.op = "push_file"
    /\ lastCall.exists
    /\ lastCall.path.suffix = ".wav"
    /\ lastCall.before \in Tokens
    /\ lastCall.exc = "HomeAssistantError"
    /\ lastCall.requests = <<>>

\* The name push_file looks for: the override if given, else the base name.
EffectiveName ==
    IF lastCall.override = "" THEN lastCall.path.base ELSE lastCall.override

\* The listing the verification read of the last push_file was answered with.
VerifiedListing ==
    IF Has(data_of(lastCall.reply.rj), "files")
    THEN data_of(lastCall.reply.rj).files ELSE <<>>

\* C12: after the upload request succeeds push_file reads the file list
\* exactly once; when the effective name (the override if given, else the
\* local base name) is in that listing it returns that entry, when it is
\* absent it fails with the application error; it returns nothing else,
\* and it sends no further request after the one read.
C12_PushFilePostCondition ==
    lastCall.op = "push_file" =>
        /\ lastCall.requests \in {<<>>, <<"upload">>, <<"upload", "list">>}
        /\ lastCall.requests = <<"upload">> =>
              (lastCall.endpoint = "upload" /\ lastCall.exc # "none")
        /\ (lastCall.requests = <<"upload", "list">> /\ IsSuccess(lastCall.reply)) =>
              IF Has(VerifiedListing, EffectiveName)
              THEN /\ lastCall.exc = "none"
                   /\ lastCall.ret = VerifiedListing[EffectiveName]
              ELSE lastCall.exc = "HomeAssistantError"
        /\ lastCall.exc = "none" =>
              /\ lastCall.requests = <<"upload", "list">>
              /\ IsSuccess(lastCall.reply)
              /\ Has(VerifiedListing, EffectiveName)
              /\ lastCall.ret.name = EffectiveName

\* a.mp3 was pushed under the name b.mp3 and the entry b.mp3 came back.
C12_Witness ==
    /\ lastCall.op = "push_file"
    /\ lastCall.path.base = "a.mp3"
    /\ lastCall.override = "b.mp3"
    /\ lastCall.requests = <<"upload", "list">>
    /\ lastCall.exc = "none"
    /\ lastCall.ret = devFiles["b.mp3"]

\* The device answered the upload with success, stored nothing, and the
\* verification read found the name absent.
C12_SilentRejection ==
    /\ lastCall.op = "push_file"
    /\ lastCall.requests = <<"upload", "list">>
    /\ IsSuccess(lastCall.reply)
    /\ Has(data_of(lastCall.reply.rj), "files")
    /\ ~Has(devFiles, EffectiveName)
    /\ lastCall.exc = "HomeAssistantError"

\* The last set_volume was answered with a success envelope.
VolumeSet == lastCall.op = "set_volume" /\ lastCall.exc = "none"

\* The volume the device states in the envelope, at the top level or in data.
EnvelopeVolumes ==
    (IF Has(lastCall.reply.rj, VOLUME_KEY) THEN {lastCall.reply.rj[VOLUME_KEY]} ELSE {})
    \cup (IF Has(data_of(lastCall.reply.rj), VOLUME_KEY)
          THEN {data_of(lastCall.reply.rj)[VOLUME_KEY]} ELSE {})

\* C13 as stated: a successful set_volume returns the volume the device
\* confirms in its response envelope, never the requested one in its place.
C13_ReturnsConfirmedVolume ==
    VolumeSet => lastCall.ret \in EnvelopeVolumes

\* C13 amended: a successful set_volume returns the aoVol member at the top
\* level of the response envelope when the envelope has one, whatever was
\* requested, and the requested volume when it has none (an echo inside
\* the data object is not read); a failed set_volume returns nothing.
C13_ReturnsEchoOrRequested ==
    lastCall.op = "set_volume" =>
        IF lastCall.exc = "none"
        THEN lastCall.ret = IF Has(lastCall.reply.rj, VOLUME_KEY)
                            THEN lastCall.reply.rj[VOLUME_KEY]
                            ELSE lastCall.volume
        ELSE lastCall.ret = <<>>

\* The device echoed another volume than the requested one.
C13_Witness ==
    /\ VolumeSet
    /\ Has(lastCall.reply.rj, VOLUME_KEY)
    /\ lastCall.reply.rj[VOLUME_KEY] # lastCall.volume
    /\ lastCall.ret = lastCall.reply.rj[VOLUME_KEY]

\* The device stated another volume inside data and the requested one was
\* returned.
C13_EchoInDataIgnored ==
    /\ VolumeSet
    /\ Has(data_of(lastCall.reply.rj), VOLUME_KEY)
    /\ data_of(lastCall.reply.rj)[VOLUME_KEY] # lastCall.volume
    /\ lastCall.ret = lastCall.volume


(* ====================================================================== *)
(* Claims about the wrapped entity operations (Spec)                      *)
(* ====================================================================== *)
Finished == done.op # "none"

Disconnect(a) == a.exc = "ConnectError" /\ a.cause = "ServerDisconnectedError"

OtherConnectError(a) == a.exc = "ConnectError" /\ a.cause # "ServerDisconnectedError"

LastTry(d) == d.tries[Len(d.tries)]

\* The effects of a successful last attempt are in place.
EffectsOfSuccess ==
    /\ (done.op = "async_update" /\ done.last.caught = "none") =>
            /\ attr_available
            /\ attr_state \in {"PLAYING", "IDLE"}
    /\ done.op = "async_set_volume_level" =>
            device_info[VOLUME_KEY] = done.last.new_volume
    /\ (done.op = "async_play_media" /\ done.last.listed # "unknown") =>
            Len(done.last.plays) = 1

\* C6: a wrapped operation whose first attempt fails with a server
\* disconnect and whose second attempt succeeds returns without raising,
\* with the effects of the second attempt; when both attempts fail with a
\* server disconnect it raises that ConnectError; a first server disconnect
\* is always followed by the second attempt and there is never a third.
C6_DisconnectRetry ==
    /\ inv.op # "none" => (inv.i <= 1 /\ Len(inv.tries) = inv.i)
    /\ Finished =>
        /\ Len(done.tries) \in {1, 2}
        /\ Disconnect(done.tries[1]) => Len(done.tries) = 2
        /\ (Len(done.tries) = 2 /\ Disconnect(done.tries[1])
                /\ done.tries[2].exc = "none") =>
              (done.result = "returned" /\ done.exc = "none" /\ EffectsOfSuccess)
        /\ (Len(done.tries) = 2 /\ Disconnect(done.tries[1])
                /\ Disconnect(done.tries[2])) =>
              (done.result = "raised" /\ Disconnect(done))

C6_Witness ==
    /\ Finished
    /\ done.op = "async_set_volume_level"
    /\ Len(done.tries) = 2
    /\ Disconnect(done.tries[1])
    /\ done.tries[2].exc = "none"
    /\ done.result = "returned"
    /\ device_info[VOLUME_KEY] = done.last.new_volume

\* C7 as stated: after an attempt that fails with a ConnectError that is not
\* a server disconnect, no further attempt is made in the invocation,
\* whatever the availability flag, and the device is marked unavailable.
C7_NoRetryAfterOtherConnectError ==
    /\ inv.op # "none" =>
        \A k \in 1..Len(inv.tries) : ~OtherConnectError(inv.tries[k])
    /\ Finished =>
        \A k \in 1..Len(done.tries) :
            OtherConnectError(done.tries[k]) =>
                (k = Len(done.tries) /\ ~attr_available)

\* The last attempt of the finished invocation did what it was asked to.
Succeeded ==
    /\ Finished
    /\ done.result = "returned"
    /\ LastTry(done).exc = "none"
    /\ done.op = "async_update" => done.last.listed = "fetched"
    /\ done.op = "async_play_media" => Len(done.last.plays) = 1

\* C8 as stated: the successful completion of any wrapped operation (update,
\* set-volume or play-media) leaves the availability flag true.
C8_AnySuccessRestores ==
    Succeeded => attr_available

\* The entity is created anew (setup, reload), with the flag at its default.
EntityCreated == phase = "setup_info" \/ phase' = "setup_login"

\* C8 amended: once the device is marked unavailable the flag stays false
\* until an update whose fetch_file_list succeeds, which sets it to true;
\* set-volume and play-media, successful or not, never set it to true.
C8_OnlyUpdateRestores ==
    [][ /\ (~attr_available /\ attr_available') =>
              \/ EntityCreated
              \/ /\ inv.op = "async_update"
                 /\ done'.op = "async_update"
                 /\ done'.last.listed = "fetched"
        /\ (inv.op = "async_update" /\ inv' = Idle
                /\ done'.last.listed = "fetched") => attr_available'
        /\ (inv.op \in {"async_set_volume_level", "async_play_media"}
                /\ ~attr_available) => ~attr_available'
      ]_vars

\* An update found the device unavailable, timed out, tried again and
\* restored the flag.
C8_Witness ==
    /\ Succeeded
    /\ done.op = "async_update"
    /\ Len(done.tries) = 2
    /\ OtherConnectError(done.tries[1])
    /\ attr_available

\* C9 as stated: an AuthError raised by a client call inside any wrapped
\* operation schedules the reload of the integration.
C9_AuthErrorReloads ==
    (Finished /\ (done.last.caught = "AuthError" \/ LastTry(done).exc = "AuthError"))
        => reload_pending

\* C9 amended: an AuthError of fetch_file_list inside update is consumed:
\* the reload is scheduled and update returns without raising; an AuthError
\* inside set-volume or play-media is raised to the caller and schedules no
\* reload; nothing else schedules a reload.
C9_OnlyUpdateReloads ==
    [][ /\ (~reload_pending /\ reload_pending') =>
              /\ inv.op = "async_update"
              /\ done'.op = "async_update"
              /\ done'.last.caught = "AuthError"
        /\ (inv.op = "async_update" /\ inv' = Idle) =>
              /\ done'.exc # "AuthError"
              /\ done'.last.caught = "AuthError" =>
                    (reload_pending' /\ done'.result = "returned")
        /\ (inv.op \in {"async_set_volume_level", "async_play_media"}
                /\ inv' = Idle /\ LastTry(done').exc = "AuthError") =>
              /\ done'.result = "raised"
              /\ done'.exc = "AuthError"
              /\ reload_pending' = reload_pending
      ]_vars

C9_Witness ==
    /\ Finished
    /\ done.op = "async_play_media"
    /\ done.result = "raised"
    /\ done.exc = "AuthError"
    /\ ~reload_pending

\* C10: an attempt of play-media that finds the name in the listing uploads
\* nothing and calls play_file once, with the id of the listed entry; one
\* that finds it absent uploads once and then calls play_file once, with
\* the id of the entry push_file returned.
C10_UploadIfAbsent ==
    /\ inv.op = "async_play_media" =>
        /\ inv.uploads <= 1
        /\ Len(inv.plays) = 0
        /\ inv.listed = "present" => inv.uploads = 0
        /\ inv.pc = "play" =>
              IF inv.listed = "present"
              THEN inv.file_id = inv.listed_id
              ELSE inv.uploads = 1 /\ inv.file_id = inv.new_file_id
    /\ (Finished /\ done.op = "async_play_media" /\ LastTry(done).exc = "none"
            /\ done.last.listed # "unknown") =>
        IF done.last.listed = "present"
        THEN /\ done.last.uploads = 0
             /\ done.last.plays = <<done.last.listed_id>>
        ELSE /\ done.last.uploads = 1
             /\ done.last.new_file_id # 0
             /\ done.last.plays = <<done.last.new_file_id>>

\* b.mp3 is not on the device at first: an earlier invocation put it there.
C10_Witness ==
    /\ Finished
    /\ done.op = "async_play_media"
    /\ done.result = "returned"
    /\ done.last.name = "b.mp3"
    /\ done.last.listed = "present"
    /\ done.last.uploads = 0
    /\ done.last.plays = <<DeviceId("b.mp3")>>


(* ====================================================================== *)
(* Claims about the setup of the config entry (Spec)                      *)
(* ====================================================================== *)
SetupCalls == {"login", "get_device_info"}

\* async_setup_entry ended, one way or the other.
SetupEnded ==
    phase \in {"ConfigEntryNotReady", "ConfigEntryAuthFailed", "setup_error",
               "no_entity", "loaded"}

\* C14: a setup whose login or get_device_info fails with ConnectError ends
\* with ConfigEntryNotReady, one whose login or get_device_info fails with
\* AuthError ends with ConfigEntryAuthFailed; neither stores runtime data
\* nor creates the entity; runtime data is stored only by the step in which
\* get_device_info succeeds after login succeeded.
C14_SetupSignals ==
    [][ /\ (phase \in {"setup_login", "setup_info"} /\ phase' # phase) =>
              /\ lastCall'.op = (IF phase = "setup_login" THEN "login"
                                 ELSE "get_device_info")
              /\ lastCall'.exc = "ConnectError" => phase' = "ConfigEntryNotReady"
              /\ lastCall'.exc = "AuthError" => phase' = "ConfigEntryAuthFailed"
              /\ lastCall'.exc # "none" =>
                    (~runtime_data_stored' /\ ~entity_exists' /\ device_info' = device_info)
        /\ (~runtime_data_stored /\ runtime_data_stored') =>
              /\ phase = "setup_info"
              /\ lastCall.op = "login" /\ lastCall.exc = "none"
              /\ lastCall'.op = "get_device_info" /\ lastCall'.exc = "none"
              /\ headers' \in Tokens
        /\ entity_exists' => runtime_data_stored'
      ]_vars

\* Login succeeded and get_device_info was refused: new credentials needed.
C14_Witness ==
    /\ phase = "ConfigEntryAuthFailed"
    /\ lastCall.op = "get_device_info"
    /\ lastCall.exc = "AuthError"
    /\ headers \in Tokens
    /\ device_info = <<>>


(* ====================================================================== *)
(* Claims about errors inside the wrapped operations (Spec)               *)
(* ====================================================================== *)
\* The generic application error and the validation errors.
GenericErrors == {"HomeAssistantError", "FileNotFoundError"}

\* This step ends an attempt of the running invocation.
AttemptEnded == inv.op # "none" /\ (inv' = Idle \/ inv'.i # inv.i)

\* The attempts made so far, after the step.
TriesAfter == IF inv' = Idle THEN done'.tries ELSE inv'.tries

\* C15: an attempt of a wrapped operation that ends with the generic
\* application error or a validation error (not MP3, local file missing)
\* ends the invocation: the error is raised to the caller, no further
\* attempt is made and the availability flag is as it was.
C15_GenericErrorsSurface ==
    [][ (AttemptEnded /\ TriesAfter[Len(TriesAfter)].exc \in GenericErrors) =>
            /\ inv' = Idle
            /\ done'.result = "raised"
            /\ done'.exc = TriesAfter[Len(TriesAfter)].exc
            /\ Len(done'.tries) = inv.i + 1
            /\ attr_available' = attr_available
      ]_vars

\* The local file was gone when push_file looked, while the device was
\* marked unavailable: raised at once, the flag still false.
C15_Witness ==
    /\ Finished
    /\ done.op = "async_play_media"
    /\ done.result = "raised"
    /\ done.exc = "FileNotFoundError"
    /\ Len(done.tries) = 1
    /\ ~attr_available


(* ====================================================================== *)
(* Claims about the requests of the entity (Spec)                         *)
(* ====================================================================== *)
\* The client operations the entity calls.
EntityRequests == {"fetch_file_list", "set_volume", "push_file", "play_file"}

\* C16: every request an entity operation sends (file list, device edit,
\* upload, play) carries the token the client of that entity stored at its
\* successful login; the entity exists, and its operations run, only for a
\* client that holds a token, so none of them sends a request without one.
C16_EntityRequestsCarryToken ==
    /\ entity_exists => headers \in Tokens
    /\ inv.op # "none" => entity_exists
    /\ lastCall.op \in EntityRequests =>
          /\ entity_exists
          /\ lastCall.token \in Tokens
          /\ lastCall.token = headers

\* The upload of a play-media carried the stored token.
C16_Witness ==
    /\ lastCall.op = "push_file"
    /\ lastCall.endpoint = "upload"
    /\ inv.op = "async_play_media"
    /\ inv.pc = "verify"
    /\ lastCall.token = "token2"
    /\ headers = "token2"


(* ====================================================================== *)
(* Claims about the order of play-media (Spec)                            *)
(* ====================================================================== *)
Sends(requests, endpoint) == \E k \in 1..Len(requests) : requests[k] = endpoint

\* C17: the MP3 check of the resolved media comes before the first device
\* request, so media that is not MP3 is rejected with the validation error
\* with no list, upload or play request sent; play_file is requested only
\* as the last request of an attempt, after the file id was taken from the
\* listing or from the entry a successful push_file returned, never after
\* a failed validation, fetch_file_list or push_file.
C17_PlayOrder ==
    /\ inv.op = "async_play_media" =>
        /\ inv.pc = "resolve" => inv.requests = <<>>
        /\ inv.requests # <<>> => inv.media = "mp3"
        /\ ~Sends(inv.requests, "start")
        /\ inv.pc = "play" =>
              \/ /\ inv.requests = <<"list">>
                 /\ inv.listed = "present"
                 /\ inv.file_id = inv.listed_id
              \/ /\ inv.requests = <<"list", "upload", "list">>
                 /\ inv.listed = "absent"
                 /\ inv.new_file_id # 0
                 /\ inv.file_id = inv.new_file_id
    /\ (Finished /\ done.op = "async_play_media") =>
        /\ done.last.media = "not_mp3" =>
              /\ done.result = "raised"
              /\ done.exc = "HomeAssistantError"
        /\ done.last.media # "mp3" => done.last.requests = <<>>
        /\ Len(done.last.plays) = (IF Sends(done.last.requests, "start") THEN 1 ELSE 0)
        /\ Sends(done.last.requests, "start") =>
              \/ /\ done.last.requests = <<"list", "start">>
                 /\ done.last.listed = "present"
                 /\ done.last.plays = <<done.last.listed_id>>
              \/ /\ done.last.requests = <<"list", "upload", "list", "start">>
                 /\ done.last.listed = "absent"
                 /\ done.last.new_file_id # 0
                 /\ done.last.plays = <<done.last.new_file_id>>

\* A download that is not audio/mpeg was rejected, no request sent, in the
\* attempt that followed a server disconnect.
C17_Witness ==
    /\ Finished
    /\ done.op = "async_play_media"
    /\ Len(done.tries) = 2
    /\ done.last.media = "not_mp3"
    /\ done.last.name = ""
    /\ done.result = "raised"
    /\ done.exc = "HomeAssistantError"
    /\ done.last.requests = <<>>

\* The upload went through, the name was missing from the listing read
\* after it, and play_file was not requested.
C17_NoPlayAfterFailedPush ==
    /\ Finished
    /\ done.op = "async_play_media"
    /\ done.last.requests = <<"list", "upload", "list">>
    /\ done.exc = "HomeAssistantError"
    /\ done.last.plays = <<>>


(* ====================================================================== *)
(* Claims about the playback state (Spec)                                 *)
(* ====================================================================== *)
\* C18: an update whose fetch_file_list succeeds leaves the playback state
\* PLAYING when at least one entry of the fetched listing has playStatus 1
\* and IDLE when none has, and leaves the availability flag true; an update
\* whose fetch_file_list fails leaves the playback state as it was.
C18_StateFollowsListing ==
    [][ inv.op = "async_update" =>
          /\ (inv' = Idle /\ LastTry(done').exc = "none"
                  /\ done'.last.caught = "none") => done'.last.listed = "fetched"
          /\ IF inv' = Idle /\ done'.last.listed = "fetched"
             THEN /\ attr_available'
                  /\ attr_state' \in {"PLAYING", "IDLE"}
                  /\ attr_state' = "PLAYING" <=>
                        \E n \in DOMAIN done'.last.files :
                            done'.last.files[n].playStatus = 1
             ELSE attr_state' = attr_state
      ]_vars

\* Two files were listed, one of them playing.
C18_Witness ==
    /\ Finished
    /\ done.op = "async_update"
    /\ done.last.listed = "fetched"
    /\ DOMAIN done.last.files = {"a.mp3", "b.mp3"}
    /\ done.last.files["a.mp3"].playStatus = 0
    /\ done.last.files["b.mp3"].playStatus = 1
    /\ attr_state = "PLAYING"
    /\ attr_available

\* An update failed while the state was PLAYING and the state stayed.
C18_FailureKeepsState ==
    /\ Finished
    /\ done.op = "async_update"
    /\ done.last.caught = "AuthError"
    /\ attr_state = "PLAYING"


(* ====================================================================== *)
(* Claims about the cached volume (Spec)                                  *)
(* ====================================================================== *)
\* C19: of the entity's operations only a successful set-volume changes
\* the cached aoVol, to the value set_volume returned; a set-volume that
\* fails, whether the wrapper swallows the ConnectError or the error is
\* raised, and every update and play-media leave it as it was.
C19_VolumeCache ==
    [][ /\ inv.op \in {"async_update", "async_play_media"} =>
              device_info' = device_info
        /\ inv.op = "async_set_volume_level" =>
              IF inv' = Idle /\ LastTry(done').exc = "none"
              THEN /\ done'.last.new_volume \in Volumes
                   /\ device_info' =
                         [device_info EXCEPT ![VOLUME_KEY] = done'.last.new_volume]
              ELSE device_info' = device_info
        /\ (entity_exists /\ entity_exists' /\ device_info' # device_info) =>
              (inv.op = "async_set_volume_level" /\ done'.result = "returned")
      ]_vars

\* A set-volume timed out and was swallowed, the cache kept its value, and
\* the device is marked unavailable.
C19_Witness ==
    /\ Finished
    /\ done.op = "async_set_volume_level"
    /\ done.result = "returned"
    /\ OtherConnectError(LastTry(done))
    /\ done.last.new_volume = None
    /\ device_info[VOLUME_KEY] = 1
    /\ ~attr_available

\* A set-volume succeeded and the cache holds the returned value.
C19_Stored ==
    /\ Finished
    /\ done.op = "async_set_volume_level"
    /\ Len(done.tries) = 1
    /\ LastTry(done).exc = "none"
    /\ done.last.new_volume = 0
    /\ device_info[VOLUME_KEY] = 0
    /\ ~attr_available


(* ====================================================================== *)
(* Claims about the temporary file of play-media (Spec)                   *)
(* ====================================================================== *)
\* C20 as stated: no temporary file that an attempt of play-media created
\* for a download exists any more when the attempt has ended, whether it
\* returned, failed in the download, listing, upload or play step, or is
\* followed by the wrapper's second attempt.
C20_TempFilesDeleted ==
    /\ inv.op # "none" =>
          \A k \in 1..Len(inv.tries) : inv.tries[k].tf # "exists"
    /\ Finished =>
          \A k \in 1..Len(done.tries) : done.tries[k].tf # "exists"


(* ====================================================================== *)
(* Claims about the ConnectErrors the wrapper raises (Spec)               *)
(* ====================================================================== *)
\* C21 as stated: a wrapped operation raises a ConnectError to its caller
\* only when both of its attempts failed with a ConnectError caused by a
\* server disconnect; after any other sequence of attempts it does not
\* raise a ConnectError.
C21_RaisedOnlyAfterTwoDisconnects ==
    (Finished /\ done.result = "raised" /\ done.exc = "ConnectError") =>
        /\ Len(done.tries) = 2
        /\ Disconnect(done.tries[1])
        /\ Disconnect(done.tries[2])


(* ====================================================================== *)
(* Two play-media invocations on one entity (RaceSpec)                    *)
(* ====================================================================== *)
\* The entity takes no lock and sets no PARALLEL_UPDATES: two service calls
\* run as two tasks that interleave at their awaits. Here inv maps each
\* invocation to the locals of its single attempt and done counts the
\* upload requests the device answered with success, and those of them
\* that were sent while the device already held the file.
Invocations == {"first", "second"}

\* The file name both invocations play; it is not on the device.
RaceName == "b.mp3"

RaceLocals ==
    [pc |-> "list", name |-> RaceName, file_id |-> 0, uploads |-> 0]

RaceInit ==
    /\ headers \in Tokens
    /\ devFiles \in { <<>>, DeviceStore(<<>>, "a.mp3", TRUE) }
    /\ lastCall = [op |-> "none"]
    /\ phase = "loaded"
    /\ attr_available = TRUE
    /\ attr_state = "None"
    /\ device_info = [aoVol |-> 0]
    /\ reload_pending = FALSE
    /\ inv = [k \in Invocations |-> RaceLocals]
    /\ done = [uploads |-> 0, redundant |-> 0]

raceFrame == <<headers, phase, attr_available, attr_state, device_info, reload_pending>>

\* files = await self._client.fetch_file_list(); if name not in files
race_list(k) ==
    /\ inv[k].pc = "list"
    /\ \E t \in Replies(ListPayloads(devFiles)) :
        LET r == fetch_file_list(t) IN
        /\ lastCall' = Sent("fetch_file_list", "list", headers) @@ [by |-> k]
        /\ inv' = [inv EXCEPT ![k] =
                IF r.exc # "none" THEN [@ EXCEPT !.pc = "raised"]
                ELSE IF needs_upload(r.ret, @.name) THEN [@ EXCEPT !.pc = "upload"]
                ELSE [@ EXCEPT !.pc = "play",
                               !.file_id = existing_file_id(r.ret, inv[k].name)]]
    /\ UNCHANGED <<devFiles, done, raceFrame>>

\* push_file: the upload request.
race_upload(k) ==
    /\ inv[k].pc = "upload"
    /\ \E t \in Replies(NoPayloads) : \E stored \in StoredOptions(t) :
        LET up == push_file_upload(t) IN
        /\ lastCall' = Sent("push_file", "upload", headers) @@ [by |-> k]
        /\ devFiles' = DeviceStore(devFiles, inv[k].name, stored)
        /\ done' = [done EXCEPT
                        !.uploads = IF up.exc = "none" THEN @ + 1 ELSE @,
                        !.redundant = IF up.exc = "none" /\ Has(devFiles, inv[k].name)
                                      THEN @ + 1 ELSE @]
        /\ inv' = [inv EXCEPT ![k] =
                IF up.exc # "none" THEN [@ EXCEPT !.pc = "raised"]
                ELSE [@ EXCEPT !.pc = "verify", !.uploads = @ + 1]]
    /\ UNCHANGED raceFrame

\* push_file: the listing read after the upload; file_id = new_file["id"]
race_verify(k) ==
    /\ inv[k].pc = "verify"
    /\ \E t \in Replies(ListPayloads(devFiles)) :
        LET r == push_file_verify(t, inv[k].name) IN
        /\ lastCall' = Sent("push_file", "list", headers) @@ [by |-> k]
        /\ inv' = [inv EXCEPT ![k] =
                IF r.exc # "none" THEN [@ EXCEPT !.pc = "raised"]
                ELSE [@ EXCEPT !.pc = "play", !.file_id = r.ret.id]]
    /\ UNCHANGED <<devFiles, done, raceFrame>>

\* await self._client.play_file(file_id)
race_play(k) ==
    /\ inv[k].pc = "play"
    /\ \E t \in Replies(NoPayloads) :
        LET r == play_file(t) IN
        /\ lastCall' = Sent("play_file", "start", headers) @@ [by |-> k]
        /\ devFiles' = DevicePlay(devFiles, t, inv[k].file_id)
        /\ inv' = [inv EXCEPT ![k] =
                [@ EXCEPT !.pc = IF r.exc # "none" THEN "raised" ELSE "returned"]]
    /\ UNCHANGED <<done, raceFrame>>

RaceNext ==
    \/ \E k \in Invocations : race_list(k)
    \/ \E k \in Invocations : race_upload(k)
    \/ \E k \in Invocations : race_verify(k)
    \/ \E k \in Invocations : race_play(k)

RaceSpec == RaceInit /\ [][RaceNext]_vars

\* C22 as stated: two play-media invocations on the same entity for the
\* same file name that is absent from the device upload the file at most
\* once between them, however they interleave at their awaits.
C22_UploadedAtMostOnce ==
    done.uploads <= 1


\* No upload is sent for a file the device already holds.
C22_NoUploadOfStoredFile ==
    done.redundant = 0


\* Both invocations found the name absent, the device stored the upload of
\* one of them, and the upload of the other was sent and answered too.
C22_BothUploaded ==
    /\ \A k \in Invocations : inv[k].pc = "verify" /\ inv[k].uploads = 1
    /\ Has(devFiles, RaceName)
    /\ done.uploads = 2
    /\ done.redundant = 1

====
